---- MODULE Spec2Model ----
(***************************************************************************)
(* The annotation job pipeline of the benchmarking platform:               *)
(* JobOperations.processJobs (src/server/controllers/jobOperations.ts),    *)
(* the trigger GET /api/triggerProcessJobs, over the Job, Sequence and     *)
(* SequenceAnnotation stores.                                              *)
(*                                                                         *)
(* One invocation of processJobs is a chain of continuations on the Node   *)
(* event loop; each action below is one continuation (the code that runs   *)
(* between two suspension points), together with the store operation or    *)
(* external process whose completion resumes it.                           *)
(***************************************************************************)
EXTENDS Integers, Sequences, FiniteSets, TLC

\* ------------------------------------------------------------------ bounds
MaxJobs  == 2   \* jobs ever inserted in the Job store
MaxInv   == 2   \* invocations of the trigger (overlapping or successive)
MaxSeqs  == 3   \* sequences in the Sequence store (export specification)
MaxFasta == 2   \* FASTA files under /INPUT (`start` script specification)

JobIds == 1..MaxJobs
Inv    == 1..MaxInv

\* ------------------------------------------------------------- data values
NoJob     == [_id |-> 0]     \* findOne found nothing (null)
NoRef     == "none"          \* a reference field that is not set
Undefined == "undefined"     \* a column the row does not have
EOL       == "\n"            \* os.EOL

\* Job documents created through POST /api/job: an annotation job names a
\* tool, a target dataset and a germline; a benchmark job names none of them.
AnnotationJob ==
    [status |-> "SUBMITTED", type |-> "annotation",
     target |-> "d1", tool |-> "t1", germline |-> "g1"]
BenchmarkJob ==
    [status |-> "SUBMITTED", type |-> "benchmark",
     target |-> NoRef, tool |-> NoRef, germline |-> NoRef]
NewJobs == {AnnotationJob, BenchmarkJob}

\* A text (a seqId, a content, a file) is a sequence of tokens; EOL is the
\* line terminator token and string concatenation is \o.
\* The Sequence store of the pipeline specification: dataset d1 holds two
\* sequences, dataset d2 one.
SeedSequences ==
    << [seqId |-> <<"s1">>, content |-> <<"ACGT">>, datasetId |-> "d1"],
       [seqId |-> <<"s9">>, content |-> <<"TT">>,   datasetId |-> "d2"],
       [seqId |-> <<"s2">>, content |-> <<"GG">>,   datasetId |-> "d1"] >>

\* Sequence documents the export specification draws its store from (the
\* schema accepts any strings): the third seqId and the second content hold
\* a line terminator.
SeqDocs ==
    [seqId     : {<<"s1">>, <<"s2">>, <<"s", EOL, "3">>},
     content   : {<<"ACGT">>, <<"AC", EOL, "GT">>},
     datasetId : {"d1", "d2"}]

\* Data rows of a tool output file, as written: the cells of the columns
\* the ingestion reads.  A sequence_id cell is a text, a v_call cell a gene
\* name or the empty string.  The file of the second row has no v_call
\* column.
GoodRow == [sequence_id |-> <<"s1">>, v_call |-> "IGHV1"]
BadRow  == [sequence_id |-> <<"s2">>, v_call |-> Undefined]
Rows    == {GoodRow, BadRow}

SeqsUpTo(S, n) == UNION {[1..k -> S] : k \in 0..n}

\* Output directories the tool may leave: no file; one file of one
\* well-formed row; a file of a well-formed and a malformed row next to an
\* empty file.  A directory is a sequence of files,
\* a file the sequence of its data rows.
Outputs ==
    { <<>>,
      << <<GoodRow>> >>,
      << <<GoodRow, BadRow>>, <<>> >> }

\* The lines of a file: its tokens split at the line terminators.
RECURSIVE SplitLines(_, _)
SplitLines(tokens, line) ==
    IF tokens = <<>> THEN (IF line = <<>> THEN <<>> ELSE <<line>>)
    ELSE IF Head(tokens) = EOL
         THEN <<line>> \o SplitLines(Tail(tokens), <<>>)
         ELSE SplitLines(Tail(tokens), Append(line, Head(tokens)))
Lines(content) == SplitLines(content, <<>>)

\* Sequence documents of the round-trip specification: identifiers that
\* are words and identifiers written with digits only, one token per digit.
RoundTripDocs ==
    { [seqId |-> <<"s1">>,          content |-> <<"ACGT">>, datasetId |-> "d1"],
      [seqId |-> <<"0", "0", "7">>, content |-> <<"GG">>,   datasetId |-> "d1"],
      [seqId |-> <<"1", "2">>,      content |-> <<"TT">>,   datasetId |-> "d1"],
      [seqId |-> <<"s9">>,          content |-> <<"CC">>,   datasetId |-> "d2"] }

RECURSIVE HeaderRows(_)
\* The rows the identity tool writes for the lines of a FASTA file: one per
\* header line, its sequence_id the header without ">", its v_call empty.
HeaderRows(lines) ==
    IF lines = <<>> THEN <<>>
    ELSE (IF Head(lines) # <<>> /\ Head(Head(lines)) = ">"
          THEN << [sequence_id |-> Tail(Head(lines)), v_call |-> ""] >>
          ELSE <<>>) \o HeaderRows(Tail(lines))

\* The identity tool: one output file per FASTA file under /INPUT.
IdentityTool(dir) == [k \in 1..Len(dir) |-> HeaderRows(Lines(dir[k].content))]

\* Positions of the files in the listing of an output directory.
FileIndexes == UNION {DOMAIN out : out \in Outputs}

\* No job directory: the invocation has created none.
NoDir == 0

\* The names mkdtempSync can give a job directory (the random characters it
\* appends to the prefix).
DirNames == 1..MaxInv

\* The `start` script before it is run.
StartIdle == [pc |-> "idle"]

VARIABLES
    jobs,         \* Job store: sequence of job documents, _id = index
    sequences,    \* Sequence store, in store order
    toolOutput,   \* the files the tool writes under /OUTPUT for its input
    annotations,  \* SequenceAnnotation store: set of documents
    serverUp,     \* the Node process is alive
    pc,           \* per invocation: the continuation it waits for
    nextJob,      \* per invocation: _id returned by findOne (line 20)
    job,          \* per invocation: the local copy `job` (lines 27-31)
    workspaces,   \* invocations whose job directory tree exists on disk
    inputDir,     \* per invocation: files of inputsDir, name -> tokens
    outputDir,    \* per invocation: files of outputsDir
    build,        \* per invocation: result of `docker build`
    run,          \* per invocation: result of `docker run`
    cursor,       \* per invocation: per output file, the row being saved
    deleted,      \* _ids of the job documents removed from the Job store
    responses,    \* HTTP responses sent so far
    start,        \* the run of the igblast116 `start` script
    jobDir        \* per invocation: the name of its job directory

vars == <<jobs, sequences, toolOutput, annotations, serverUp, pc, nextJob, job,
          workspaces, inputDir, outputDir, build, run, cursor,
          deleted, responses, start, jobDir>>

\* --------------------------------------------------------------- helpers
\* Variant of Submitted with the query of line 21, findOne({}): any stored
\* job, whatever its status.
SubmittedAnyStatus == {j \in 1..Len(jobs) : j \notin deleted}

\* this.jobs.findOne({status: 'SUBMITTED'}): the ids it may return.  The
\* query has no sort, so any matching document may come back.
Submitted ==
    {j \in 1..Len(jobs) : j \notin deleted /\ jobs[j].status = "SUBMITTED"}

RECURSIVE FindSequences(_, _)
\* this.sequences.find({datasetId: d}): the matching documents in store order.
FindSequences(store, d) ==
    IF store = <<>> THEN <<>>
    ELSE (IF Head(store).datasetId = d THEN <<Head(store)>> ELSE <<>>)
             \o FindSequences(Tail(store), d)

Init ==
    /\ jobs = <<>>
    /\ sequences = SeedSequences
    /\ toolOutput \in Outputs
    /\ annotations = {}
    /\ serverUp = TRUE
    /\ pc = [i \in Inv |-> "idle"]
    /\ nextJob = [i \in Inv |-> NoJob]
    /\ job = [i \in Inv |-> NoJob]
    /\ workspaces = {}
    /\ inputDir = [i \in Inv |-> <<>>]
    /\ outputDir = [i \in Inv |-> <<>>]
    /\ build = [i \in Inv |-> "none"]
    /\ run = [i \in Inv |-> "none"]
    /\ cursor = [i \in Inv |-> <<>>]
    /\ deleted = {}
    /\ responses = {}
    /\ start = StartIdle
    /\ jobDir = [i \in Inv |-> NoDir]

\* ---------------------------------------------------------------- actions
\* An HTTP response: res.status(code) of the handler of a request, with the
\* error text of its body ("" when it has none); inv is the invocation for
\* the trigger route and 0 for the other routes.
Response(req, inv, code, error) ==
    [req |-> req, inv |-> inv, code |-> code, error |-> error]

\* JobCtrl.insert: POST /api/job saves the submitted document.
InsertJob(doc) ==
    /\ serverUp
    /\ Len(jobs) < MaxJobs
    /\ jobs' = Append(jobs, doc)
    /\ responses' = responses \cup {Response("POST /api/job", 0, 201, "")}
    /\ UNCHANGED <<jobDir, deleted, start, sequences, toolOutput, annotations, serverUp, pc, nextJob, job,
                   workspaces, inputDir, outputDir, build, run, cursor>>

\* The _id of the users a token is signed for.
Users == {"u1"}

\* The status values a PUT /api/job/:id body asks for.
UpdateStatuses == {"SUBMITTED", "DONE"}

\* jobSchema has no owner path: the owner JobCtrl.insert sets on the
\* submitted object is not stored, and _doc.owner of a stored job is
\* undefined.
Owner(doc) == Undefined

\* this.model.find({_id: id}): the stored documents with that _id.
FindById(id) ==
    IF id \in 1..Len(jobs) /\ id \notin deleted THEN <<jobs[id]>> ELSE <<>>

\* Variant of UpdateAllowed that lets every user update a stored job.
UpdateAllowedAnyOwner(objectFromDb, user) == TRUE

\* JobCtrl.update, the test of the owner: objectFromDb[0] is the job read.
UpdateAllowed(objectFromDb, user) == Owner(objectFromDb[1]) = user

\* JobCtrl.update: PUT /api/job/:id with a body that sets the status.  When
\* no job has the id, objectFromDb[0]._doc raises a TypeError and the catch
\* clause answers 400.
UpdateJob(id, status, user) ==
    /\ serverUp
    /\ LET objectFromDb == FindById(id)
       IN  IF objectFromDb = <<>>
           THEN /\ jobs' = jobs
                /\ responses' = responses \cup
                       {Response("PUT /api/job/:id", 0, 400, "TypeError")}
           ELSE IF UpdateAllowed(objectFromDb, user)
           THEN /\ jobs' = [jobs EXCEPT ![id].status = status]
                /\ responses' = responses \cup
                       {Response("PUT /api/job/:id", 0, 200, "")}
           ELSE /\ jobs' = jobs
                /\ responses' = responses \cup
                       {Response("PUT /api/job/:id", 0, 400,
                                 "This job does not belong to you.")}
    /\ UNCHANGED <<jobDir, deleted, start, sequences, toolOutput, annotations, serverUp,
                   pc, nextJob, job, workspaces, inputDir, outputDir, build,
                   run, cursor>>

\* JobCtrl.delete: DELETE /api/job/:id removes the job with that id, if any.
DeleteJob(id) ==
    /\ serverUp
    /\ deleted' = IF id \in 1..Len(jobs) THEN deleted \cup {id} ELSE deleted
    /\ responses' = responses \cup
           {Response("DELETE /api/job/:id", 0, 200, "")}
    /\ UNCHANGED <<jobDir, start, jobs, sequences, toolOutput, annotations, serverUp,
                   pc, nextJob, job, workspaces, inputDir, outputDir, build,
                   run, cursor>>

\* processJobs, line 20: the trigger is invoked and findOne reads the store;
\* nextJob is the document as it is at the time of the read.
FindOne(i) ==
    /\ serverUp
    /\ pc[i] = "idle"
    /\ \/ /\ Submitted = {}
          /\ nextJob' = [nextJob EXCEPT ![i] = NoJob]
       \/ \E j \in Submitted :
              nextJob' = [nextJob EXCEPT ![i] = [_id |-> j, doc |-> jobs[j]]]
    /\ pc' = [pc EXCEPT ![i] = "found"]
    /\ UNCHANGED <<jobDir, deleted, responses, start, jobs, sequences, toolOutput, annotations, serverUp, job,
                   workspaces, inputDir, outputDir, build, run, cursor>>

\* Lines 22-33, no job found: the body of `if (!!nextJob)` is skipped.
ClaimNone(i) ==
    /\ serverUp
    /\ pc[i] = "found"
    /\ nextJob[i] = NoJob
    /\ pc' = [pc EXCEPT ![i] = "returned"]
    /\ UNCHANGED <<jobDir, deleted, responses, start, jobs, sequences, toolOutput, annotations, serverUp, nextJob, job,
                   workspaces, inputDir, outputDir, build, run, cursor>>

\* Lines 26-30 on a job without tool, target or germline: `job.tool._id`
\* reads a property of undefined, the TypeError rejects the invocation before
\* any write.
ClaimThrows(i) ==
    /\ serverUp
    /\ pc[i] = "found"
    /\ nextJob[i] # NoJob
    /\ NoRef \in {nextJob[i].doc.tool, nextJob[i].doc.target,
                  nextJob[i].doc.germline}
    /\ pc' = [pc EXCEPT ![i] = "threw"]
    /\ UNCHANGED <<jobDir, deleted, responses, start, jobs, sequences, toolOutput, annotations, serverUp, nextJob, job,
                   workspaces, inputDir, outputDir, build, run, cursor>>

\* Variant of ClaimedCopy for a write of {status: 'PROCESSING'} that replaces
\* the stored document: the other fields are lost.
ClaimedCopyStatusAlone(doc) ==
    [status |-> "PROCESSING", type |-> Undefined,
     target |-> NoRef, tool |-> NoRef, germline |-> NoRef]

\* Lines 26-31: the local copy of the document read by findOne, with the
\* references as ids and status PROCESSING.
ClaimedCopy(doc) == [doc EXCEPT !.status = "PROCESSING"]

\* Variant of ClaimUpdate for an update of every job that matches
\* {status: 'SUBMITTED'}.
ClaimUpdateEverySubmitted(store, id, copy) ==
    [j \in DOMAIN store |->
        IF store[j].status = "SUBMITTED"
        THEN [store[j] EXCEPT !.status = "PROCESSING"] ELSE store[j]]

\* Line 33: findOneAndUpdate({_id: job._id}, job) sets every field of the
\* copy on the stored document, whatever its status is at that moment; it
\* writes nothing when the document has been removed.
ClaimUpdate(store, id, copy) ==
    IF id \in deleted THEN store ELSE [store EXCEPT ![id] = copy]

\* Lines 26-33: the claim.
Claim(i) ==
    /\ serverUp
    /\ pc[i] = "found"
    /\ nextJob[i] # NoJob
    /\ NoRef \notin {nextJob[i].doc.tool, nextJob[i].doc.target,
                     nextJob[i].doc.germline}
    /\ job' = [job EXCEPT ![i] =
                  [_id |-> nextJob[i]._id, doc |-> ClaimedCopy(nextJob[i].doc)]]
    /\ jobs' = ClaimUpdate(jobs, nextJob[i]._id, ClaimedCopy(nextJob[i].doc))
    /\ pc' = [pc EXCEPT ![i] = "claimed"]
    /\ UNCHANGED <<jobDir, deleted, responses, start, sequences, toolOutput, annotations, serverUp, nextJob,
                   workspaces, inputDir, outputDir, build, run, cursor>>

\* The names of the job directories on disk: processJobs removes none.
DirsOnDisk == {jobDir[k] : k \in workspaces}

\* Variant of MkdtempSync that may return the name of an existing directory.
MkdtempSyncAnyName(existing) == DirNames

\* fs.mkdtempSync(prefix): the names it may return, the prefix followed by
\* random characters such that no directory of that name exists.
MkdtempSync(existing) == DirNames \ existing

\* Lines 35-45: four mkdtempSync calls create the job directory, of name
\* `name`, and its input, germline and output directories inside it;
\* sequences.find is issued.
CreateWorkspace(i, name) ==
    /\ serverUp
    /\ pc[i] = "claimed"
    /\ name \in MkdtempSync(DirsOnDisk)
    /\ jobDir' = [jobDir EXCEPT ![i] = name]
    /\ workspaces' = workspaces \cup {i}
    /\ pc' = [pc EXCEPT ![i] = "exporting"]
    /\ UNCHANGED <<deleted, responses, start, jobs, sequences, toolOutput, annotations, serverUp, nextJob, job,
                   inputDir, outputDir, build, run, cursor>>

\* Lines 36-39: the job directory is created, of name `name`, and a later
\* mkdtempSync call throws.  The invocation's promise rejects.
CreateWorkspaceThrows(i, name) ==
    /\ serverUp
    /\ pc[i] = "claimed"
    /\ name \in MkdtempSync(DirsOnDisk)
    /\ jobDir' = [jobDir EXCEPT ![i] = name]
    /\ workspaces' = workspaces \cup {i}
    /\ pc' = [pc EXCEPT ![i] = "threw"]
    /\ UNCHANGED <<deleted, responses, start, jobs, sequences, toolOutput,
                   annotations, serverUp, nextJob, job, inputDir, outputDir,
                   build, run, cursor>>

\* fs.appendFileSync(path, text): creates the file when it does not exist.
\* A directory is a sequence of files [name, content]; content is a sequence
\* of tokens, EOL being the line terminator.
AppendFileSync(dir, name, text) ==
    IF \E k \in 1..Len(dir) : dir[k].name = name
    THEN [k \in 1..Len(dir) |->
             IF dir[k].name = name
             THEN [dir[k] EXCEPT !.content = @ \o text] ELSE dir[k]]
    ELSE Append(dir, [name |-> name, content |-> text])

RECURSIVE ExportFastaContentFirst(_, _, _)
\* Variant of ExportFasta with the two appendFileSync calls exchanged.
ExportFastaContentFirst(dir, name, seqs) ==
    IF seqs = <<>> THEN dir
    ELSE LET seq == Head(seqs)
             d1  == AppendFileSync(dir, name, seq.content \o <<EOL>>)
             d2  == AppendFileSync(d1, name, <<">">> \o seq.seqId \o <<EOL>>)
         IN  ExportFastaContentFirst(d2, name, Tail(seqs))

RECURSIVE ExportFasta(_, _, _)
\* Lines 46-49: for each sequence, append the header line then the content
\* line to the FASTA file.
ExportFasta(dir, name, seqs) ==
    IF seqs = <<>> THEN dir
    ELSE LET seq == Head(seqs)
             d1  == AppendFileSync(dir, name, <<">">> \o seq.seqId \o <<EOL>>)
             d2  == AppendFileSync(d1, name, seq.content \o <<EOL>>)
         IN  ExportFasta(d2, name, Tail(seqs))

\* Lines 44-58: the export, the copy of the germline snapshot (the same
\* bundled files for every run) and the start of `docker build`.  The
\* invocation's promise resolves here; the rest runs in exec callbacks.
Export(i) ==
    /\ serverUp
    /\ pc[i] = "exporting"
    /\ inputDir' = [inputDir EXCEPT ![i] =
           ExportFasta(<<>>, i, FindSequences(sequences, job[i].doc.target))]
    /\ pc' = [pc EXCEPT ![i] = "building"]
    /\ UNCHANGED <<jobDir, deleted, responses, start, jobs, sequences, toolOutput, annotations, serverUp, nextJob, job,
                   workspaces, outputDir, build, run, cursor>>

\* Lines 46-53: copySync throws after the export.  The invocation's promise
\* rejects.
ExportThrows(i) ==
    /\ serverUp
    /\ pc[i] = "exporting"
    /\ inputDir' = [inputDir EXCEPT ![i] =
           ExportFasta(<<>>, i, FindSequences(sequences, job[i].doc.target))]
    /\ pc' = [pc EXCEPT ![i] = "threw"]
    /\ UNCHANGED <<jobDir, deleted, responses, start, jobs, sequences, toolOutput,
                   annotations, serverUp, nextJob, job, workspaces, outputDir,
                   build, run, cursor>>

\* Results of child_process.exec as the callbacks see them: "error" is a
\* nonzero exit code (error set), "stderr" is exit code 0 with text on
\* standard error, "ok" is exit code 0 and nothing on standard error.
ExecResults == {"error", "stderr", "ok"}

\* Variant of Proceeds with neither test: the callback always goes on.
ProceedsAlways(res) == TRUE

\* Variant of Proceeds without the `if (error) return` test.
ProceedsDespiteError(res) == res \in {"ok", "error"}

\* Lines 59-66 and 76-83: what the callback does with (error, stderr):
\* it goes on only when both are empty.
Proceeds(res) == res = "ok"

\* Lines 58-75: callback of `docker build`; starts `docker run` on success.
BuildCallback(i, res) ==
    /\ serverUp
    /\ pc[i] = "building"
    /\ build' = [build EXCEPT ![i] = res]
    /\ pc' = [pc EXCEPT ![i] = IF Proceeds(res) THEN "running" ELSE "done"]
    /\ UNCHANGED <<jobDir, deleted, responses, start, jobs, sequences, toolOutput, annotations, serverUp, nextJob, job,
                   workspaces, inputDir, outputDir, run, cursor>>

\* Lines 75-87: callback of `docker run`; the container has terminated and
\* left its files in the output directory, whatever its exit code.  Every
\* run here gets the same /INPUT and /GERMLINES, and the tool writes the same
\* files for them.  Issues fs.readdir on success.
RunCallback(i, res) ==
    /\ serverUp
    /\ pc[i] = "running"
    /\ run' = [run EXCEPT ![i] = res]
    /\ outputDir' = [outputDir EXCEPT ![i] = toolOutput]
    /\ pc' = [pc EXCEPT ![i] = IF Proceeds(res) THEN "listing" ELSE "done"]
    /\ UNCHANGED <<jobDir, deleted, responses, start, jobs, sequences, toolOutput, annotations, serverUp, nextJob, job,
                   workspaces, inputDir, build, cursor>>

\* Line 75: exec is called without a timeout option; when the container
\* never terminates, the callback of `docker run` is never called.
ContainerHangs(i) ==
    /\ serverUp
    /\ pc[i] = "running"
    /\ run' = [run EXCEPT ![i] = "hung"]
    /\ pc' = [pc EXCEPT ![i] = "hung"]
    /\ UNCHANGED <<jobDir, deleted, responses, start, jobs, sequences, toolOutput,
                   annotations, serverUp, nextJob, job, workspaces, inputDir,
                   outputDir, build, cursor>>

\* Lines 88-91: fs.readdir failed; process.exit(1) ends the server.
ReaddirError(i) ==
    /\ serverUp
    /\ pc[i] = "listing"
    /\ serverUp' = FALSE
    /\ UNCHANGED <<jobDir, deleted, responses, start, jobs, sequences, toolOutput, annotations, pc, nextJob, job,
                   workspaces, inputDir, outputDir, build, run, cursor>>

\* A cursor value: the row whose save() is in flight; past the last row when
\* the file's callback has finished; Aborted when a save() rejected.
Aborted == 0
Finished(i, cur) ==
    \A f \in 1..Len(cur) : cur[f] = Aborted \/ cur[f] > Len(outputDir[i][f])

\* Line 114: findOneAndUpdate without callback, await or exec() returns a
\* Mongoose Query that is never executed: the store is not written.
CompletionUpdate(store, id, copy) == store

\* Lines 87-116: fs.readdir succeeded.  files.forEach starts one async
\* callback per file: each parses its file and runs up to its first
\* `await ...save()`; then job.status = 'DONE' and the completion update.
ReaddirCallback(i) ==
    /\ serverUp
    /\ pc[i] = "listing"
    /\ LET cur == [f \in 1..Len(outputDir[i]) |-> 1]
       IN  /\ cursor' = [cursor EXCEPT ![i] = cur]
           /\ pc' = [pc EXCEPT ![i] =
                        IF Finished(i, cur) THEN "done" ELSE "ingesting"]
    /\ job' = [job EXCEPT ![i].doc.status = "DONE"]
    /\ jobs' = CompletionUpdate(jobs, job[i]._id, job'[i].doc)
    /\ UNCHANGED <<jobDir, deleted, responses, start, sequences, toolOutput, annotations, serverUp, nextJob,
                   workspaces, inputDir, outputDir, build, run>>

\* Decimal digits, DigitOf[d + 1] the digit of value d.
DigitOf == <<"0", "1", "2", "3", "4", "5", "6", "7", "8", "9">>
Digits  == {DigitOf[n] : n \in DOMAIN DigitOf}
DigitValue(c) == (CHOOSE n \in DOMAIN DigitOf : DigitOf[n] = c) - 1

\* Line 97, dl.tsv type inference: the test a cell passes for the type
\* integer (the empty cell passes every test).
IsInteger(text) == \A n \in DOMAIN text : text[n] \in Digits

\* The type dl.tsv infers for the sequence_id column of a file: integer when
\* every cell passes the test, string otherwise.
ColumnType(file) ==
    IF \A r \in DOMAIN file : IsInteger(file[r].sequence_id)
    THEN "integer" ELSE "string"

RECURSIVE ToNumber(_)
\* The number a text of digits is parsed to.
ToNumber(text) ==
    IF text = <<>> THEN 0
    ELSE 10 * ToNumber(SubSeq(text, 1, Len(text) - 1))
             + DigitValue(text[Len(text)])

RECURSIVE NumberToString(_)
\* The text of a number.
NumberToString(n) ==
    IF n < 10 THEN <<DigitOf[n + 1]>>
    ELSE NumberToString(n \div 10) \o <<DigitOf[(n % 10) + 1]>>

\* null, the value of an empty cell.
Null == "null"

\* Line 97, dl.tsv(...): the parsed rows of a file.  An empty cell becomes
\* null; a cell of an integer column becomes a number; a v_call column holds
\* gene names and is of type string.
DlTsv(file) ==
    [r \in DOMAIN file |->
        [sequence_id |->
             IF file[r].sequence_id = <<>> THEN [type |-> "null"]
             ELSE IF ColumnType(file) = "integer"
                  THEN [type |-> "integer",
                        value |-> ToNumber(file[r].sequence_id)]
                  ELSE [type |-> "string", value |-> file[r].sequence_id],
         v_call |-> IF file[r].v_call = "" THEN Null ELSE file[r].v_call]]

\* The cast of a value to the schema type String (seqId: String).
CastString(v) ==
    IF v.type = "null" THEN <<>>
    ELSE IF v.type = "integer" THEN NumberToString(v.value) ELSE v.value

\* Lines 99-108: the SequenceAnnotation document built from row d of a file.
\* inv, file and row stand for the document's fresh _id.
AnnotationDoc(i, f, r) ==
    LET d == DlTsv(outputDir[i][f])[r]
    IN  [jobId |-> nextJob[i]._id, seqId |-> CastString(d.sequence_id),
         v_call |-> d.v_call, inv |-> i, file |-> f, row |-> r]

\* Lines 98-109: the save() of a row completes; when it succeeded the
\* document is in the store and the callback goes on to its next row, when
\* it failed the callback's promise rejects and its other rows are dropped.
SaveCallback(i, f, saved) ==
    /\ serverUp
    /\ pc[i] = "ingesting"
    /\ f \in 1..Len(cursor[i])
    /\ cursor[i][f] # Aborted
    /\ cursor[i][f] <= Len(outputDir[i][f])
    /\ annotations' = IF saved
                      THEN annotations \cup {AnnotationDoc(i, f, cursor[i][f])}
                      ELSE annotations
    /\ LET cur == [cursor[i] EXCEPT ![f] = IF saved THEN @ + 1 ELSE Aborted]
       IN  /\ cursor' = [cursor EXCEPT ![i] = cur]
           /\ pc' = [pc EXCEPT ![i] =
                        IF Finished(i, cur) THEN "done" ELSE "ingesting"]
    /\ UNCHANGED <<jobDir, deleted, responses, start, jobs, sequences, toolOutput, serverUp, nextJob, job,
                   workspaces, inputDir, outputDir, build, run>>

\* Directory names matter only through their being equal or not: here the
\* job directory of invocation i gets the name i.
Next ==
    \/ \E doc \in NewJobs : InsertJob(doc)
    \/ \E i \in Inv : FindOne(i)
    \/ \E i \in Inv : ClaimNone(i)
    \/ \E i \in Inv : ClaimThrows(i)
    \/ \E i \in Inv : Claim(i)
    \/ \E i \in Inv : CreateWorkspace(i, i)
    \/ \E i \in Inv : CreateWorkspaceThrows(i, i)
    \/ \E i \in Inv : Export(i)
    \/ \E i \in Inv : ExportThrows(i)
    \/ \E i \in Inv, res \in ExecResults : BuildCallback(i, res)
    \/ \E i \in Inv, res \in ExecResults : RunCallback(i, res)
    \/ \E i \in Inv : ContainerHangs(i)
    \/ \E i \in Inv : ReaddirError(i)
    \/ \E i \in Inv : ReaddirCallback(i)
    \/ \E i \in Inv, f \in FileIndexes, saved \in BOOLEAN :
           SaveCallback(i, f, saved)

Spec == Init /\ [][Next]_vars

\* The continuations of invocation i that the event loop runs once they are
\* ready: every step after the trigger's request has been received.
Continue(i) ==
    \/ ClaimNone(i) \/ ClaimThrows(i) \/ Claim(i)
    \/ \E name \in DirNames : CreateWorkspace(i, name)
    \/ \E name \in DirNames : CreateWorkspaceThrows(i, name)
    \/ Export(i) \/ ExportThrows(i)
    \/ \E res \in ExecResults : BuildCallback(i, res)
    \/ \E res \in ExecResults : RunCallback(i, res)
    \/ ContainerHangs(i)
    \/ ReaddirError(i) \/ ReaddirCallback(i)
    \/ \E f \in FileIndexes, saved \in BOOLEAN : SaveCallback(i, f, saved)

\* The pipeline under the scheduling of the event loop: a continuation that
\* is ready is run.
SpecFair == Spec /\ \A i \in Inv : WF_vars(Continue(i))

\* ------------------------------------------ repeated-trigger specification
\* Line 66 of routes.ts: the route is requested again.  The slot of an
\* invocation whose handler found no job, threw, or went on to its run with
\* the job it claimed is taken by the next request.
Retrigger(i) ==
    /\ serverUp
    /\ pc[i] \in {"returned", "threw", "claimed"}
    /\ pc' = [pc EXCEPT ![i] = "idle"]
    /\ nextJob' = [nextJob EXCEPT ![i] = NoJob]
    /\ job' = [job EXCEPT ![i] = NoJob]
    /\ UNCHANGED <<jobDir, jobs, sequences, toolOutput, annotations, serverUp,
                   workspaces, inputDir, outputDir, build, run, cursor,
                   deleted, responses, start>>

\* The trigger requested again and again: the reads and the claims of the
\* invocations, with jobs being submitted.
NextRepeat ==
    \/ \E doc \in NewJobs : InsertJob(doc)
    \/ \E i \in Inv : FindOne(i)
    \/ \E i \in Inv : ClaimNone(i)
    \/ \E i \in Inv : ClaimThrows(i)
    \/ \E i \in Inv : Claim(i)
    \/ \E i \in Inv : Retrigger(i)

\* Every request is made and served: the trigger is invoked in every free
\* slot, and a handler that can go on does.
SpecRepeat ==
    /\ Init /\ [][NextRepeat]_vars
    /\ \A i \in Inv :
           /\ WF_vars(FindOne(i))
           /\ WF_vars(ClaimNone(i) \/ ClaimThrows(i) \/ Claim(i))
           /\ WF_vars(Retrigger(i))

\* ---------------------------------------------- workspace specification
\* The claims and the workspaces of the invocations, mkdtempSync returning
\* any name it can.
NextWorkspace ==
    \/ \E doc \in NewJobs : InsertJob(doc)
    \/ \E i \in Inv : FindOne(i)
    \/ \E i \in Inv : ClaimNone(i)
    \/ \E i \in Inv : ClaimThrows(i)
    \/ \E i \in Inv : Claim(i)
    \/ \E i \in Inv, name \in DirNames : CreateWorkspace(i, name)
    \/ \E i \in Inv, name \in DirNames : CreateWorkspaceThrows(i, name)

SpecWorkspace == Init /\ [][NextWorkspace]_vars

\* --------------------------------------------------- CRUD specification
\* The job routes next to the pipeline: jobs are inserted, updated and
\* deleted while one invocation of the trigger runs.
NextCrud ==
    \/ \E doc \in NewJobs : InsertJob(doc)
    \/ \E id \in JobIds, status \in UpdateStatuses, user \in Users :
           UpdateJob(id, status, user)
    \/ \E id \in JobIds : DeleteJob(id)
    \/ FindOne(1)
    \/ ClaimNone(1)
    \/ ClaimThrows(1)
    \/ Claim(1)
    \/ CreateWorkspace(1, 1)
    \/ CreateWorkspaceThrows(1, 1)
    \/ Export(1)
    \/ ExportThrows(1)
    \/ \E res \in ExecResults : BuildCallback(1, res)
    \/ \E res \in ExecResults : RunCallback(1, res)
    \/ ContainerHangs(1)
    \/ ReaddirError(1)
    \/ ReaddirCallback(1)
    \/ \E f \in FileIndexes, saved \in BOOLEAN : SaveCallback(1, f, saved)

SpecCrud == Init /\ [][NextCrud]_vars

\* ------------------------------------------- `start` script specification
\* The exit status of the script: still running, or exited with a code.
NotExited  == [exited |-> FALSE]
Exit(code) == [exited |-> TRUE, code |-> code]

\* Exit codes of a command the script runs: success and failure.
CommandCodes == {0, 1}

\* A run of `start`: its two arguments, the exit code of the germline build
\* commands, the exit code the annotation command has for each FASTA file
\* found under /INPUT; built tells that the germline build commands were
\* run, nr is NR_FASTA, number the files annotated so far,
\* output the files whose annotations were written under /OUTPUT.
StartRuns ==
    [pc : {"species"}, species : {"", "human"}, receptor : {"", "ig"},
     germline : CommandCodes, fasta : SeqsUpTo(CommandCodes, MaxFasta),
     built : {FALSE}, nr : {0}, number : {0}, output : {{}},
     status : {NotExited}]

\* Lines 18-25: the test of $1.
StartCheckSpecies ==
    /\ start.pc = "species"
    /\ start' = IF start.species = ""
                THEN [start EXCEPT !.pc = "exited", !.status = Exit(2)]
                ELSE [start EXCEPT !.pc = "receptor"]
    /\ UNCHANGED <<jobDir, jobs, sequences, toolOutput, annotations, serverUp, pc,
                   nextJob, job, workspaces, inputDir, outputDir, build, run,
                   cursor, deleted, responses>>

\* Variant of StartCheckReceptor without the test of $2.
StartCheckReceptorNoTest ==
    /\ start.pc = "receptor"
    /\ start' = [start EXCEPT !.pc = "germline"]
    /\ UNCHANGED <<jobs, sequences, toolOutput, annotations, serverUp, pc,
                   nextJob, job, workspaces, inputDir, outputDir, build, run,
                   cursor, deleted, responses, jobDir>>

\* Lines 27-34: the test of $2.
StartCheckReceptor ==
    /\ start.pc = "receptor"
    /\ start' = IF start.receptor = ""
                THEN [start EXCEPT !.pc = "exited", !.status = Exit(2)]
                ELSE [start EXCEPT !.pc = "germline"]
    /\ UNCHANGED <<jobDir, jobs, sequences, toolOutput, annotations, serverUp, pc,
                   nextJob, job, workspaces, inputDir, outputDir, build, run,
                   cursor, deleted, responses>>

\* Lines 37-40: the germline build commands; the script has no `set -e` and
\* does not read their exit codes.
StartBuildGermline ==
    /\ start.pc = "germline"
    /\ start' = [start EXCEPT !.pc = "collect", !.built = TRUE]
    /\ UNCHANGED <<jobDir, jobs, sequences, toolOutput, annotations, serverUp, pc,
                   nextJob, job, workspaces, inputDir, outputDir, build, run,
                   cursor, deleted, responses>>

\* Lines 43-67: the FASTA files under /INPUT are listed and counted.
StartCollect ==
    /\ start.pc = "collect"
    /\ start' = [start EXCEPT !.pc = "loop", !.nr = Len(start.fasta)]
    /\ UNCHANGED <<jobDir, jobs, sequences, toolOutput, annotations, serverUp, pc,
                   nextJob, job, workspaces, inputDir, outputDir, build, run,
                   cursor, deleted, responses>>

\* Lines 74-83: one turn of the loop runs the annotation command on the
\* next file with `eval $COMMAND`; its exit code is not read.  A command
\* that succeeded has written its annotations.
StartAnnotate ==
    /\ start.pc = "loop"
    /\ start.number < start.nr
    /\ LET k == start.number + 1
       IN  start' = [start EXCEPT
                        !.number = k,
                        !.output = IF start.fasta[k] = 0
                                   THEN @ \cup {k} ELSE @]
    /\ UNCHANGED <<jobDir, jobs, sequences, toolOutput, annotations, serverUp, pc,
                   nextJob, job, workspaces, inputDir, outputDir, build, run,
                   cursor, deleted, responses>>

\* Line 86: after the loop, echo "DONE" is the last command: the script
\* ends with the exit code of echo.
StartDone ==
    /\ start.pc = "loop"
    /\ start.number = start.nr
    /\ start' = [start EXCEPT !.pc = "exited", !.status = Exit(0)]
    /\ UNCHANGED <<jobDir, jobs, sequences, toolOutput, annotations, serverUp, pc,
                   nextJob, job, workspaces, inputDir, outputDir, build, run,
                   cursor, deleted, responses>>

InitStart ==
    /\ jobs = <<>>
    /\ sequences = SeedSequences
    /\ toolOutput = <<>>
    /\ annotations = {}
    /\ serverUp = TRUE
    /\ pc = [i \in Inv |-> "idle"]
    /\ nextJob = [i \in Inv |-> NoJob]
    /\ job = [i \in Inv |-> NoJob]
    /\ workspaces = {}
    /\ inputDir = [i \in Inv |-> <<>>]
    /\ outputDir = [i \in Inv |-> <<>>]
    /\ build = [i \in Inv |-> "none"]
    /\ run = [i \in Inv |-> "none"]
    /\ cursor = [i \in Inv |-> <<>>]
    /\ deleted = {}
    /\ responses = {}
    /\ start \in StartRuns
    /\ jobDir = [i \in Inv |-> NoDir]

NextStart ==
    \/ StartCheckSpecies
    \/ StartCheckReceptor
    \/ StartBuildGermline
    \/ StartCollect
    \/ StartAnnotate
    \/ StartDone

SpecStart == InitStart /\ [][NextStart]_vars

\* ------------------------------------------------- export specification
\* The export step on its own: the Sequence store is any store of at most
\* MaxSeqs documents, the Job store holds one submitted annotation job, and
\* one invocation runs up to the end of the export.
InitExport ==
    /\ jobs = <<AnnotationJob>>
    /\ sequences \in SeqsUpTo(SeqDocs, MaxSeqs)
    /\ toolOutput = <<>>
    /\ annotations = {}
    /\ serverUp = TRUE
    /\ pc = [i \in Inv |-> "idle"]
    /\ nextJob = [i \in Inv |-> NoJob]
    /\ job = [i \in Inv |-> NoJob]
    /\ workspaces = {}
    /\ inputDir = [i \in Inv |-> <<>>]
    /\ outputDir = [i \in Inv |-> <<>>]
    /\ build = [i \in Inv |-> "none"]
    /\ run = [i \in Inv |-> "none"]
    /\ cursor = [i \in Inv |-> <<>>]
    /\ deleted = {}
    /\ responses = {}
    /\ start = StartIdle
    /\ jobDir = [i \in Inv |-> NoDir]

NextExport ==
    \/ FindOne(1)
    \/ Claim(1)
    \/ CreateWorkspace(1, 1)
    \/ Export(1)

SpecExport == InitExport /\ [][NextExport]_vars

\* --------------------------------------------- round-trip specification
\* One run over the output of the identity tool: the Sequence store is any
\* store of at most MaxSeqs documents, the job targets dataset d1, and the
\* tool writes the identity output of the exported FASTA file.
InitRoundTrip ==
    /\ jobs = <<AnnotationJob>>
    /\ sequences \in SeqsUpTo(RoundTripDocs, MaxSeqs)
    /\ toolOutput = IdentityTool(
           ExportFasta(<<>>, 1, FindSequences(sequences, AnnotationJob.target)))
    /\ annotations = {}
    /\ serverUp = TRUE
    /\ pc = [i \in Inv |-> "idle"]
    /\ nextJob = [i \in Inv |-> NoJob]
    /\ job = [i \in Inv |-> NoJob]
    /\ workspaces = {}
    /\ inputDir = [i \in Inv |-> <<>>]
    /\ outputDir = [i \in Inv |-> <<>>]
    /\ build = [i \in Inv |-> "none"]
    /\ run = [i \in Inv |-> "none"]
    /\ cursor = [i \in Inv |-> <<>>]
    /\ deleted = {}
    /\ responses = {}
    /\ start = StartIdle
    /\ jobDir = [i \in Inv |-> NoDir]

NextRoundTrip ==
    \/ FindOne(1)
    \/ Claim(1)
    \/ CreateWorkspace(1, 1)
    \/ Export(1)
    \/ \E res \in ExecResults : BuildCallback(1, res)
    \/ \E res \in ExecResults : RunCallback(1, res)
    \/ ReaddirCallback(1)
    \/ \E f \in FileIndexes, saved \in BOOLEAN : SaveCallback(1, f, saved)

SpecRoundTrip == InitRoundTrip /\ [][NextRoundTrip]_vars

\* ------------------------------------------------------------ properties
\* An invocation that has claimed a job (its claim write was applied).
Claimed(i) == job[i] # NoJob

\* The invocation's chain of callbacks has ended.
Ended(i) == pc[i] = "done"

\* exec results with exit code 0.
ExitZero == {"ok", "stderr"}

\* The scan of the output directory ran (lines 93-114 were executed).
Scanned(i) == Claimed(i) /\ job[i].doc.status = "DONE"

\* Annotation documents created by invocation i.
CreatedBy(i) == {a \in annotations : a.inv = i}

\* Total number of data rows of a directory of output files.
RECURSIVE TotalRows(_)
TotalRows(dir) == IF dir = <<>> THEN 0 ELSE Len(Head(dir)) + TotalRows(Tail(dir))

WellFormed(d) == d.v_call # Undefined /\ d.sequence_id # <<>>

\* C1: of two invocations of the trigger, at most one claims a given job;
\* the other does no work for it.
C1_AtMostOneClaim ==
    \A i1, i2 \in Inv :
        (i1 # i2 /\ Claimed(i1) /\ Claimed(i2)) => job[i1]._id # job[i2]._id

\* C2: a run whose build succeeded, whose container exited with code 0 and
\* whose output directory was listed leaves its job in status DONE.
C2_SuccessIsDone ==
    \A i \in Inv :
        (Ended(i) /\ build[i] \in ExitZero /\ run[i] \in ExitZero /\ Scanned(i))
            => jobs[job[i]._id].status = "DONE"

\* C3: a run whose build failed or whose container exited with a nonzero
\* code leaves its job in status ERROR.
C3_FailureIsError ==
    \A i \in Inv :
        (Ended(i) /\ (build[i] = "error" \/ run[i] = "error"))
            => jobs[job[i]._id].status = "ERROR"

\* C4: after a build failure or a tool execution failure the run attempts no
\* ingestion: it scans no output file and creates no Annotation record,
\* whatever the output directory contains.
C4_NoIngestionAfterFailure ==
    \A i \in Inv :
        (build[i] = "error" \/ run[i] = "error")
            => /\ CreatedBy(i) = {}
               /\ cursor[i] = <<>>
               /\ ~Scanned(i)

\* C4 witness: a run ended by a nonzero exit code of the container, which
\* had left data rows in the output directory.
C4_Witness ==
    \E i \in Inv :
        /\ Ended(i) /\ run[i] = "error"
        /\ \E f \in 1..Len(outputDir[i]) : Len(outputDir[i][f]) > 0

\* C5: when a run has ended, its workspace directory tree has been removed.
C5_WorkspaceRemoved ==
    \A i \in Inv : Ended(i) => i \notin workspaces

\* C6: after a tool run with exit code 0 whose output rows are all
\* well-formed, and with no save() rejected, the ended run has created
\* exactly one Annotation record per row, all bound to the claimed job.
C6_OneRecordPerRow ==
    \A i \in Inv :
        (/\ Ended(i) /\ run[i] \in ExitZero
         /\ \A f \in 1..Len(outputDir[i]) :
                \A r \in 1..Len(outputDir[i][f]) : WellFormed(outputDir[i][f][r])
         /\ \A f \in 1..Len(cursor[i]) : cursor[i][f] # Aborted)
            => /\ Cardinality(CreatedBy(i)) = TotalRows(outputDir[i])
               /\ \A a \in CreatedBy(i) : a.jobId = job[i]._id

\* C7: a data row without v_call creates no Annotation record.
C7_MalformedRowSkipped ==
    \A a \in annotations : a.v_call # Undefined

\* C8: ingesting the same output for the same job a second time adds no
\* record: no two ingestions leave records with the same (jobId, seqId).
C8_Idempotent ==
    \A a, b \in annotations :
        a.inv # b.inv => ~(a.jobId = b.jobId /\ a.seqId = b.seqId)

\* C9: exit code 0 is success whatever was written to the standard streams:
\* after a build with exit code 0 the container is started, and after a
\* container run with exit code 0 the output directory is ingested.
C9_ExitZeroIngests ==
    \A i \in Inv :
        Ended(i) => /\ build[i] \in ExitZero => run[i] # "none"
                    /\ run[i] \in ExitZero => Scanned(i)

\* The export step of invocation i has run.
Exported(i) ==
    pc[i] \in {"building", "running", "hung", "listing", "ingesting", "done"}

\* The sequences of the target dataset of invocation i's job.
TargetSequences(i) == FindSequences(sequences, job[i].doc.target)

\* No text of the sequences holds a line terminator.
SingleLine(seqs) ==
    \A k \in 1..Len(seqs) :
        /\ \A n \in 1..Len(seqs[k].seqId) : seqs[k].seqId[n] # EOL
        /\ \A n \in 1..Len(seqs[k].content) : seqs[k].content[n] # EOL

\* dir holds one file, made of one header line and one content line per
\* sequence, in the order of seqs.
IsFastaOf(dir, seqs) ==
    /\ Len(dir) = 1
    /\ LET lines == Lines(dir[1].content)
       IN  /\ Len(lines) = 2 * Len(seqs)
           /\ \A k \in 1..Len(seqs) :
                  /\ lines[2 * k - 1] = <<">">> \o seqs[k].seqId
                  /\ lines[2 * k] = seqs[k].content

\* C10 as stated: for a target dataset with N sequences, N >= 0, the export
\* writes one FASTA file of exactly N header/content line pairs, in store
\* order.
C10_ExportWritesOneFile ==
    \A i \in Inv : Exported(i) => IsFastaOf(inputDir[i], TargetSequences(i))

\* C10 amended: for N >= 1 sequences whose identifiers and contents hold no
\* line terminator, the export writes one FASTA file of exactly N
\* header/content line pairs, in store order; for N = 0 it writes no file.
C10_ExportFasta ==
    \A i \in Inv :
        Exported(i) =>
            IF TargetSequences(i) = <<>>
            THEN inputDir[i] = <<>>
            ELSE SingleLine(TargetSequences(i))
                     => IsFastaOf(inputDir[i], TargetSequences(i))

\* C10 witness: an export of a dataset of two single-line sequences with
\* different identifiers, stored with a sequence of another dataset before
\* them.
C10_Witness ==
    \E i \in Inv :
        /\ Exported(i)
        /\ Len(TargetSequences(i)) = 2
        /\ SingleLine(TargetSequences(i))
        /\ TargetSequences(i)[1].seqId # TargetSequences(i)[2].seqId
        /\ sequences # <<>> /\ sequences[1].datasetId # job[i].doc.target

\* The seqId values of the Annotation records created by invocation i.
SeqIdsCreatedBy(i) == {a.seqId : a \in CreatedBy(i)}

\* The sequence identifiers of the target dataset of invocation i's job.
TargetSeqIds(i) ==
    {TargetSequences(i)[k].seqId : k \in 1..Len(TargetSequences(i))}

\* C11: when the tool copies every input sequence identifier verbatim into
\* the sequence_id column and leaves the call fields empty, a run that
\* ingested the whole output has created records whose seqId values are
\* exactly the identifiers of the target dataset, with empty call fields.
C11_RoundTrip ==
    \A i \in Inv :
        (/\ Ended(i) /\ Scanned(i)
         /\ outputDir[i] = IdentityTool(inputDir[i])
         /\ \A f \in 1..Len(cursor[i]) : cursor[i][f] # Aborted)
            => /\ SeqIdsCreatedBy(i) = TargetSeqIds(i)
               /\ \A a \in CreatedBy(i) : a.v_call = Null

\* No stored job has status SUBMITTED.
NoSubmitted ==
    \A j \in 1..Len(jobs) : j \in deleted \/ jobs[j].status # "SUBMITTED"

\* C12: an invocation whose query runs when no job has status SUBMITTED
\* finds no job, and an invocation that found no job only returns: its step
\* changes no job, creates no workspace directory, starts no build or
\* container and creates no Annotation record, and it takes no further step.
C12_NoOp ==
    [][\A i \in Inv :
          /\ (pc[i] = "idle" /\ pc'[i] # "idle" /\ NoSubmitted)
                 => nextJob'[i] = NoJob
          /\ (pc[i] = "found" /\ nextJob[i] = NoJob /\ pc'[i] # "found")
                 => /\ pc'[i] = "returned"
                    /\ jobs' = jobs /\ workspaces' = workspaces
                    /\ build' = build /\ run' = run
                    /\ annotations' = annotations
          /\ (pc[i] = "idle" /\ pc'[i] # "idle")
                 => /\ jobs' = jobs /\ workspaces' = workspaces
                    /\ build' = build /\ run' = run
                    /\ annotations' = annotations
          /\ pc[i] = "returned" => pc'[i] = "returned"]_vars

\* C12 witness: an invocation has returned without a job while the store
\* holds jobs, none of them SUBMITTED.
C12_Witness ==
    \E i \in Inv :
        /\ pc[i] = "returned" /\ job[i] = NoJob
        /\ jobs # <<>> /\ NoSubmitted

\* The caller of invocation i of GET /api/triggerProcessJobs has its response.
Responded(i) ==
    \E r \in responses : r.req = "GET /api/triggerProcessJobs" /\ r.inv = i

\* The handler of invocation i has returned: its promise is settled (no job
\* found, an exception, or the build was started).
Returned(i) == pc[i] \notin {"idle", "found", "claimed", "exporting"}

\* C13: every invocation of the trigger returns to its caller, which gets
\* its response, without waiting for the build, the container and the
\* ingestion: once the handler has returned, the response has been sent.
C13_CallerGetsResponse ==
    \A i \in Inv : Returned(i) => Responded(i)

\* C14: when the container of a run never terminates, the invocation times
\* out and the job's status eventually becomes ERROR.
C14_HungEndsInError ==
    \A i \in Inv :
        (pc[i] = "hung")
            ~> (Claimed(i) /\ jobs[job[i]._id].status = "ERROR")

\* A save() of invocation i was rejected.
SaveFailed(i) == \E f \in 1..Len(cursor[i]) : cursor[i][f] = Aborted

\* C15: when a store write fails during a run (here the save of an
\* Annotation record), the run is aborted and its job ends in ERROR.
C15_WriteFailureIsError ==
    \A i \in Inv :
        (Ended(i) /\ SaveFailed(i)) => jobs[job[i]._id].status = "ERROR"

\* C16: when a staging step fails after the claim, the job's status becomes
\* ERROR, the workspace directories created for the run are removed, and no
\* build or container execution is started.
C16_StagingFailureIsError ==
    \A i \in Inv :
        (pc[i] = "threw" /\ Claimed(i))
            => /\ jobs[job[i]._id].status = "ERROR"
               /\ i \notin workspaces
               /\ build[i] = "none" /\ run[i] = "none"

\* The Annotation records invocation i created from output file f.
CreatedFrom(i, f) == {a \in CreatedBy(i) : a.file = f}

\* C17: an empty output file contributes no Annotation record and does not
\* make the run fail: the rows of the other files are ingested and the job
\* ends in DONE.
C17_EmptyFileIsNoError ==
    \A i \in Inv :
        (/\ Ended(i) /\ Scanned(i) /\ ~SaveFailed(i)
         /\ \E f \in 1..Len(outputDir[i]) : outputDir[i][f] = <<>>)
            => /\ \A f \in 1..Len(outputDir[i]) :
                      Cardinality(CreatedFrom(i, f)) = Len(outputDir[i][f])
               /\ jobs[job[i]._id].status = "DONE"

\* C20: the write that sets a job's status to PROCESSING finds the stored
\* status equal to SUBMITTED: no claim step of any invocation writes to a job
\* that is already PROCESSING, DONE or ERROR.
C20_ClaimFindsSubmitted ==
    [][\A i \in Inv :
          (pc[i] = "found" /\ pc'[i] = "claimed")
              => jobs[nextJob[i]._id].status = "SUBMITTED"]_vars

\* C18: the stored status of a job is changed only by the pipeline's claim
\* and completion steps, never by PUT /api/job/:id, and no step of the
\* pipeline removes a job.
C18_StatusChangedByPipelineOnly ==
    [][/\ \A j \in 1..Len(jobs) :
              jobs'[j].status # jobs[j].status
                  => \E i \in Inv :
                         \/ /\ pc[i] = "found" /\ pc'[i] = "claimed"
                            /\ nextJob[i]._id = j
                         \/ /\ pc[i] = "listing" /\ pc'[i] # "listing"
                            /\ job[i]._id = j
       /\ (\E i \in Inv : pc'[i] # pc[i])
              => deleted' = deleted /\ Len(jobs') = Len(jobs)]_vars

\* C18 witness: PUT /api/job/:id was refused for a stored job, and a job
\* has been claimed by the pipeline.
C18_Witness ==
    /\ Response("PUT /api/job/:id", 0, 400, "This job does not belong to you.")
           \in responses
    /\ \E i \in Inv : Claimed(i) /\ jobs[job[i]._id].status = "PROCESSING"

\* C19: `start` terminates with exit code 0 only when the annotation command
\* succeeded for every FASTA file found under /INPUT.
C19_ExitZeroOnlyOnSuccess ==
    (start.pc = "exited" /\ start.status = Exit(0))
        => \A k \in 1..Len(start.fasta) : start.fasta[k] = 0

C22_AnnotationJobsClaimed ==
    \A j \in JobIds :
        (j <= Len(jobs) /\ jobs[j].type = "annotation"
                        /\ jobs[j].status = "SUBMITTED")
            ~> (j <= Len(jobs) /\ jobs[j].status # "SUBMITTED")

\* C23: no failure inside a pipeline run terminates the server process.
C23_ServerStaysUp == serverUp

\* C25: every Annotation record references a job that exists in the Job
\* store.
C25_AnnotationsOfStoredJobs ==
    \A a \in annotations : a.jobId \in 1..Len(jobs) /\ a.jobId \notin deleted

\* SequenceConfigs.jobStatusSteps, the enum of the status path of jobSchema.
jobStatusSteps == {"SUBMITTED", "ERROR", "IN PROGRESS", "DONE"}

\* C29: every status the pipeline writes is a member of jobStatusSteps: the
\* status of every stored job is valid for the schema.
C29_StatusInEnum ==
    \A j \in 1..Len(jobs) : jobs[j].status \in jobStatusSteps

\* The fields of a job document other than its status.
NonStatus(doc) ==
    [type |-> doc.type, target |-> doc.target, tool |-> doc.tool,
     germline |-> doc.germline]

C26_OneJobPerInvocation ==
    [][\A i \in Inv :
          /\ \A j \in 1..Len(jobs) :
                 (/\ pc'[i] # pc[i]
                  /\ jobs'[j].status = "PROCESSING"
                  /\ jobs[j].status # "PROCESSING")
                     => pc[i] = "found" /\ j = nextJob[i]._id
          /\ pc'[i] = "idle" => pc[i] = "idle"
          /\ pc'[i] = "found" => pc[i] \in {"idle", "found"}
          /\ pc'[i] = "claimed" => pc[i] \in {"found", "claimed"}
          /\ pc'[i] = "exporting" => pc[i] \in {"claimed", "exporting"}
          /\ pc'[i] = "building" => pc[i] \in {"exporting", "building"}
          /\ pc'[i] = "running" => pc[i] \in {"building", "running"}
          /\ Claimed(i) => job'[i]._id = job[i]._id
          /\ build[i] # "none" => build'[i] = build[i]
          /\ run[i] # "none" => run'[i] = run[i]]_vars

\* C26 witness: a run has ended after its build and its container, and
\* another job is still SUBMITTED.
C26_Witness ==
    \E i \in Inv :
        /\ Ended(i) /\ Claimed(i) /\ run[i] # "none"
        /\ \E j \in 1..Len(jobs) :
               j # job[i]._id /\ jobs[j].status = "SUBMITTED"

\* C27: within a run the stages happen in the order build, execute, scan:
\* the container is started only after a successful build, the output
\* directory is scanned only after a successful container run, and after a
\* build failure the container is never started.
C27_StagesInOrder ==
    \A i \in Inv :
        /\ (pc[i] \in {"running", "hung"} \/ run[i] # "none")
               => build[i] = "ok"
        /\ (pc[i] \in {"listing", "ingesting"} \/ Scanned(i)
               \/ cursor[i] # <<>> \/ CreatedBy(i) # {})
               => build[i] = "ok" /\ run[i] = "ok"
        /\ build[i] \in {"error", "stderr"}
               => run[i] = "none" /\ pc[i] = "done"

\* C27 witness: one run has scanned its output directory after its build
\* and its container, another run has ended on a build failure.
C27_Witness ==
    \E i1, i2 \in Inv :
        /\ Scanned(i1) /\ build[i1] = "ok" /\ run[i1] = "ok"
        /\ Ended(i2) /\ build[i2] = "error"

\* The root, input, germline and output directories of invocation i's run.
DirsOf(i) ==
    {<<jobDir[i], "job-">>, <<jobDir[i], "input-">>,
     <<jobDir[i], "germline-">>, <<jobDir[i], "output-">>}

\* C28: no two runs use the same workspace directory: the four directories
\* of a run are distinct from each other and from those of every other run.
C28_WorkspacesDistinct ==
    \A i1, i2 \in workspaces :
        /\ Cardinality(DirsOf(i1)) = 4
        /\ i1 # i2 => DirsOf(i1) \cap DirsOf(i2) = {}

\* C28 witness: two runs of the same job have their workspaces on disk.
C28_Witness ==
    \E i1, i2 \in workspaces :
        /\ i1 # i2 /\ job[i1]._id = job[i2]._id
        /\ pc[i1] = "exporting" /\ pc[i2] = "exporting"

\* C30: `start` invoked without its species or without its receptor
\* parameter terminates with exit code 2 before it builds the germline,
\* collects an input file or runs an annotation command, and writes nothing
\* under /OUTPUT.
C30_MissingParameterExitsTwo ==
    (start.pc # "idle" /\ (start.species = "" \/ start.receptor = ""))
        => /\ start.pc \in {"species", "receptor", "exited"}
           /\ start.pc = "exited" => start.status = Exit(2)
           /\ ~start.built
           /\ start.nr = 0 /\ start.number = 0
           /\ start.output = {}

\* C30 witness: `start` was given a species and no receptor, with FASTA files
\* under /INPUT, and has exited with code 2.
C30_Witness ==
    /\ start.pc = "exited" /\ start.status = Exit(2)
    /\ start.species # "" /\ start.receptor = ""
    /\ start.fasta # <<>>
====
